---- MODULE Spec2Model ----
(***************************************************************************)
(* A model of the doubly linked list (src/index.js) and of the iterator    *)
(* it owns (src/unnamed/part_000).                                         *)
(*                                                                         *)
(* Node objects live in a heap: `nodes` is the sequence of every node ever *)
(* created, a node's identity is its position in that sequence, and NULL   *)
(* (0) is the null reference.  A node that was unlinked stays in the heap  *)
(* with whatever links the code left in it, because the caller still holds *)
(* the reference the removal returned.                                     *)
(*                                                                         *)
(* Every method is an operator from an object state S (the list's fields   *)
(* and its iterator's fields) to a result [st, ret, threw]; a method that  *)
(* calls another method uses that method's operator.  An action applies    *)
(* one public method to the current state and records the call in `last`.  *)
(***************************************************************************)
EXTENDS Integers, Sequences, FiniteSets, TLC

VARIABLES nodes, head, tail, length, currentNode, stopIterationFlag,
          last, inserted, removed, onlyPushBack

vars == <<nodes, head, tail, length, currentNode, stopIterationFlag,
          last, inserted, removed, onlyPushBack>>

\* Bound: the number of nodes a behaviour may create.
MaxNodes == 3

\* The payloads: the k-th item, for every k a behaviour can reach and one
\* more.  getData() only ever hands a payload back, so its shape is free.
Data == {<<"item", k>> : k \in 1 .. MaxNodes + 1}

\* The null reference.
NULL == 0

\* The value at() returns for "no such index".
FAIL == -1

\* A JavaScript argument is <<n>> for the number n and <<>> for a missing
\* argument (undefined).
UNDEFINED == <<>>

Num(n) == <<n>>

\* The indices the callers pass: below, inside and beyond every list.
Indices == {Num(i) : i \in -1 .. MaxNodes}

\* JavaScript's < and > on numbers and undefined: a comparison with
\* undefined compares with NaN and is false.
jsLT(a, b) == a # UNDEFINED /\ b # UNDEFINED /\ a[1] < b[1]

jsGT(a, b) == a # UNDEFINED /\ b # UNDEFINED /\ a[1] > b[1]

\* ------------------------------------------------------------------ results

Ret(st, ret) == [st |-> st, ret |-> ret, threw |-> FALSE]

\* A TypeError leaves the object as the statements before it made it.
Throw(st) == [st |-> st, ret |-> NULL, threw |-> TRUE]

\* --------------------------------------------------------------------- Node

Node(data) == [data |-> data, next |-> NULL, prev |-> NULL]

\* ------------------------------------------------------------------ the list

\* The current object: the list's fields and its iterator's fields.
Self == [nodes |-> nodes, head |-> head, tail |-> tail, length |-> length,
         currentNode |-> currentNode, stopIterationFlag |-> stopIterationFlag]

createNewNode(S, data) ==
    Ret([S EXCEPT !.nodes = Append(S.nodes, Node(data))], Len(S.nodes) + 1)

getHeadNode(S) == S.head

getTailNode(S) == S.tail

isEmpty(S) == S.length = 0

size(S) == S.length

\* pushBack without line 121, this.tail = newNode.
pushBack_tailNotMoved(S, data) ==
    LET a == createNewNode(S, data)
        newNode == a.ret
        T == a.st
    IN  IF isEmpty(T)
        THEN Ret([T EXCEPT !.head = newNode, !.tail = newNode,
                           !.length = T.length + 1], TRUE)
        ELSE Ret([T EXCEPT !.nodes[T.tail].next = newNode,
                           !.nodes[newNode].prev = T.tail,
                           !.length = T.length + 1], TRUE)

\* pushBack that sets only the tail on an empty list.
pushBack_headNotSet(S, data) ==
    LET a == createNewNode(S, data)
        newNode == a.ret
        T == a.st
    IN  IF isEmpty(T)
        THEN Ret([T EXCEPT !.tail = newNode,
                           !.length = T.length + 1], TRUE)
        ELSE Ret([T EXCEPT !.nodes[T.tail].next = newNode,
                           !.nodes[newNode].prev = T.tail,
                           !.tail = newNode,
                           !.length = T.length + 1], TRUE)

pushBack(S, data) ==
    LET a == createNewNode(S, data)
        newNode == a.ret
        T == a.st
    IN  IF isEmpty(T)
        THEN Ret([T EXCEPT !.head = newNode, !.tail = newNode,
                           !.length = T.length + 1], TRUE)
        ELSE Ret([T EXCEPT !.nodes[T.tail].next = newNode,
                           !.nodes[newNode].prev = T.tail,
                           !.tail = newNode,
                           !.length = T.length + 1], TRUE)

\* pushFront with the length counted once more after it delegated.
pushFront_countsDelegationTwice(S, data) ==
    IF isEmpty(S)
    THEN LET T == pushBack(S, data).st
         IN  Ret([T EXCEPT !.length = T.length + 1], TRUE)
    ELSE LET a == createNewNode(S, data)
             newNode == a.ret
             T == a.st
         IN  Ret([T EXCEPT !.nodes[newNode].next = T.head,
                           !.nodes[T.head].prev = newNode,
                           !.head = newNode,
                           !.length = T.length + 1], TRUE)

pushFront(S, data) ==
    IF isEmpty(S)
    THEN Ret(pushBack(S, data).st, TRUE)
    ELSE LET a == createNewNode(S, data)
             newNode == a.ret
             T == a.st
         IN  Ret([T EXCEPT !.nodes[newNode].next = T.head,
                           !.nodes[T.head].prev = newNode,
                           !.head = newNode,
                           !.length = T.length + 1], TRUE)

\* while (position < index) { current = current.next; position += 1; }
RECURSIVE walk(_, _, _, _)
walk(S, current, position, index) ==
    IF jsLT(Num(position), index) /\ current # NULL
    THEN walk(S, S.nodes[current].next, position + 1, index)
    ELSE current

\* insert that appends when the index is that of the last node.
insert_atLastIndexAppends(S, index, data) ==
    IF jsLT(index, Num(0)) \/ jsGT(index, Num(size(S) - 1))
    THEN Ret(S, FALSE)
    ELSE IF index = Num(0)
    THEN Ret(pushFront(S, data).st, TRUE)
    ELSE IF index = Num(size(S) - 1)
    THEN Ret(pushBack(S, data).st, TRUE)
    ELSE LET current == walk(S, getHeadNode(S), 0, index)
             a == createNewNode(S, data)
             newNode == a.ret
             T == a.st
         IN  IF current = NULL \/ T.nodes[current].prev = NULL
             THEN Throw(S)
             ELSE LET before == T.nodes[current].prev
                  IN  Ret([T EXCEPT !.nodes[before].next = newNode,
                                    !.nodes[newNode].prev = before,
                                    !.nodes[current].prev = newNode,
                                    !.nodes[newNode].next = current,
                                    !.length = T.length + 1], TRUE)

\* insert without line 180, current.prev = newNode.
insert_prevNotRelinked(S, index, data) ==
    IF jsLT(index, Num(0)) \/ jsGT(index, Num(size(S) - 1))
    THEN Ret(S, FALSE)
    ELSE IF index = Num(0)
    THEN Ret(pushFront(S, data).st, TRUE)
    ELSE LET current == walk(S, getHeadNode(S), 0, index)
             a == createNewNode(S, data)
             newNode == a.ret
             T == a.st
         IN  IF current = NULL \/ T.nodes[current].prev = NULL
             THEN Throw(S)
             ELSE LET before == T.nodes[current].prev
                  IN  Ret([T EXCEPT !.nodes[before].next = newNode,
                                    !.nodes[newNode].prev = before,
                                    !.nodes[newNode].next = current,
                                    !.length = T.length + 1], TRUE)

\* The node created at line 159 is referenced by nothing when insert
\* returns at line 164 or 170, so the heap does not keep it.
insert(S, index, data) ==
    IF jsLT(index, Num(0)) \/ jsGT(index, Num(size(S) - 1))
    THEN Ret(S, FALSE)
    ELSE IF index = Num(0)
    THEN Ret(pushFront(S, data).st, TRUE)
    ELSE LET current == walk(S, getHeadNode(S), 0, index)
             a == createNewNode(S, data)
             newNode == a.ret
             T == a.st
         IN  \* current.prev.next = ... with current or current.prev null
             IF current = NULL \/ T.nodes[current].prev = NULL
             THEN Throw(S)
             ELSE LET before == T.nodes[current].prev
                  IN  Ret([T EXCEPT !.nodes[before].next = newNode,
                                    !.nodes[newNode].prev = before,
                                    !.nodes[current].prev = newNode,
                                    !.nodes[newNode].next = current,
                                    !.length = T.length + 1], TRUE)

popBack(S) ==
    IF isEmpty(S)
    THEN Ret(S, NULL)
    ELSE LET nodeToRemove == getTailNode(S)
         IN  IF size(S) = 1
             THEN Ret([S EXCEPT !.head = NULL, !.tail = NULL,
                                !.length = S.length - 1], nodeToRemove)
             ELSE LET newTail == S.nodes[getTailNode(S)].prev
                  IN  Ret([S EXCEPT !.tail = newTail,
                                    !.nodes[newTail].next = NULL,
                                    !.length = S.length - 1], nodeToRemove)

\* popFront that unlinks the head of a one-node list itself and leaves
\* the tail.
popFront_keepsTail(S) ==
    IF isEmpty(S)
    THEN Ret(S, NULL)
    ELSE IF size(S) = 1
    THEN Ret([S EXCEPT !.head = NULL, !.length = S.length - 1], getHeadNode(S))
    ELSE LET nodeToRemove == getHeadNode(S)
             newHead == S.nodes[S.head].next
         IN  Ret([S EXCEPT !.head = newHead,
                           !.nodes[newHead].prev = NULL,
                           !.length = S.length - 1], nodeToRemove)

popFront(S) ==
    IF isEmpty(S)
    THEN Ret(S, NULL)
    ELSE IF size(S) = 1
    THEN popBack(S)
    ELSE LET nodeToRemove == getHeadNode(S)
             newHead == S.nodes[S.head].next
         IN  Ret([S EXCEPT !.head = newHead,
                           !.nodes[newHead].prev = NULL,
                           !.length = S.length - 1], nodeToRemove)

\* at whose range check reads index > this.size().
at_acceptsSize(S, index) ==
    IF isEmpty(S) \/ jsGT(index, Num(size(S)))
    THEN FAIL
    ELSE walk(S, getHeadNode(S), 0, index)

at(S, index) ==
    IF isEmpty(S) \/ jsGT(index, Num(size(S) - 1))
    THEN FAIL
    ELSE walk(S, getHeadNode(S), 0, index)

\* remove whose range check lacks index < 0.
remove_noLowerBound(S, item, index) ==
    LET nodeToRemove == at(S, index)
    IN  IF jsGT(index, Num(size(S) - 1))
        THEN Ret(S, NULL)
        ELSE IF index = Num(0)
        THEN popFront(S)
        ELSE IF index = Num(size(S) - 1)
        THEN popBack(S)
        ELSE IF nodeToRemove = FAIL
        THEN Throw(S)
        ELSE LET before == S.nodes[nodeToRemove].prev
                 after == S.nodes[nodeToRemove].next
             IN  IF before = NULL
                 THEN Throw(S)
                 ELSE LET T == [S EXCEPT !.nodes[before].next = after]
                      IN  IF after = NULL
                          THEN Throw(T)
                          ELSE Ret([T EXCEPT !.nodes[after].prev = before,
                                             !.nodes[nodeToRemove].next = NULL,
                                             !.nodes[nodeToRemove].prev = NULL,
                                             !.length = T.length - 1],
                                   nodeToRemove)

\* remove(item, index): the index is the SECOND parameter, so a call
\* remove(i) binds item to i and leaves index undefined.
remove(S, item, index) ==
    LET nodeToRemove == at(S, index)
    IN  IF jsLT(index, Num(0)) \/ jsGT(index, Num(size(S) - 1))
        THEN Ret(S, NULL)
        ELSE IF index = Num(0)
        THEN popFront(S)
        ELSE IF index = Num(size(S) - 1)
        THEN popBack(S)
        \* at() returned -1: (-1).prev is undefined, and undefined.next throws
        ELSE IF nodeToRemove = FAIL
        THEN Throw(S)
        ELSE LET before == S.nodes[nodeToRemove].prev
                 after == S.nodes[nodeToRemove].next
             IN  \* nodeToRemove.prev.next = ... with nodeToRemove.prev null
                 IF before = NULL
                 THEN Throw(S)
                 ELSE LET T == [S EXCEPT !.nodes[before].next = after]
                      IN  \* nodeToRemove.next.prev = ... with next null
                          IF after = NULL
                          THEN Throw(T)
                          ELSE Ret([T EXCEPT !.nodes[after].prev = before,
                                             !.nodes[nodeToRemove].next = NULL,
                                             !.nodes[nodeToRemove].prev = NULL,
                                             !.length = T.length - 1],
                                   nodeToRemove)

\* clear whose loop reads while (this.size() > 1).
RECURSIVE clear_stopsAtOne(_)
clear_stopsAtOne(S) ==
    IF size(S) > 1 THEN clear_stopsAtOne(popBack(S).st) ELSE Ret(S, NULL)

RECURSIVE clear(_)
clear(S) ==
    IF ~isEmpty(S) THEN clear(popBack(S).st) ELSE Ret(S, NULL)

\* The popBack calls clear makes, each of which returns a node.
RECURSIVE clearPops(_)
clearPops(S) ==
    IF ~isEmpty(S) THEN 1 + clearPops(popBack(S).st) ELSE 0

\* -------------------------------------------------------------- the iterator

getData(S, node) == S.nodes[node].data

\* next that cuts the link it has just followed.
next_cutsLink(S) ==
    LET current == S.currentNode
    IN  IF S.currentNode # NULL
        THEN Ret([S EXCEPT !.currentNode = S.nodes[current].next,
                           !.nodes[current].next = NULL], current)
        ELSE Ret(S, current)

next(S) ==
    LET current == S.currentNode
    IN  IF S.currentNode # NULL
        THEN Ret([S EXCEPT !.currentNode = S.nodes[S.currentNode].next], current)
        ELSE Ret(S, current)

hasNext(S) == S.currentNode # NULL

reset(S) == Ret([S EXCEPT !.currentNode = getHeadNode(S)], NULL)

reset_reverse(S) == Ret([S EXCEPT !.currentNode = getTailNode(S)], NULL)

\* next_reverse that follows next instead of prev.
next_reverse_followsNext(S) ==
    LET current == S.currentNode
    IN  IF S.currentNode # NULL
        THEN Ret([S EXCEPT !.currentNode = S.nodes[S.currentNode].next], current)
        ELSE Ret(S, current)

next_reverse(S) ==
    LET current == S.currentNode
    IN  IF S.currentNode # NULL
        THEN Ret([S EXCEPT !.currentNode = S.nodes[S.currentNode].prev], current)
        ELSE Ret(S, current)

first(S) == next(reset(S).st)

\* last() that resets to the head and steps forward.
iterator_last_fromHead(S) == next(reset(S).st)

\* Iterator.last (the name last is the history variable's).
iterator_last(S) == next_reverse(reset_reverse(S).st)

interrupt(S) == Ret([S EXCEPT !.stopIterationFlag = TRUE], NULL)

\* A callback is named by the function it is, and env is what its closure
\* holds.  "toArray" is the arrow function of toArray: listArray.push(data).
\* "dummyCallback" is the tests' array.push(node.getData()), and
\* "countAndInterrupt" the tests' counting callback, which interrupts the
\* iterator when its count reaches env.at.
Call(callback, S, env, el) ==
    CASE callback = "toArray" -> [st |-> S, env |-> Append(env, getData(S, el))]
      [] callback = "dummyCallback" ->
            [st |-> S, env |-> Append(env, getData(S, el))]
      [] callback = "countAndInterrupt" ->
            LET count == env.count + 1
            IN  [st |-> IF count = env.at THEN interrupt(S).st ELSE S,
                 env |-> [env EXCEPT !.count = count]]

\* The loop of each without the test of stopIterationFlag.
RECURSIVE eachLoop_ignoresInterrupt(_, _, _)
eachLoop_ignoresInterrupt(S, callback, env) ==
    IF hasNext(S)
    THEN LET n == next(S)
             c == Call(callback, n.st, env, n.ret)
         IN  eachLoop_ignoresInterrupt(c.st, callback, c.env)
    ELSE [st |-> S, env |-> env]

RECURSIVE eachLoop(_, _, _)
eachLoop(S, callback, env) ==
    IF hasNext(S) /\ ~S.stopIterationFlag
    THEN LET n == next(S)
             c == Call(callback, n.st, env, n.ret)
         IN  eachLoop(c.st, callback, c.env)
    ELSE [st |-> S, env |-> env]

\* each without the final this.stopIterationFlag = false.
each_keepsFlag(S, callback, env) ==
    LET r == eachLoop(reset(S).st, callback, env)
    IN  [st |-> r.st, env |-> r.env]

each(S, callback, env) ==
    LET r == eachLoop(reset(S).st, callback, env)
    IN  [st |-> [r.st EXCEPT !.stopIterationFlag = FALSE], env |-> r.env]

RECURSIVE eachLoop_reverse(_, _, _)
eachLoop_reverse(S, callback, env) ==
    IF hasNext(S) /\ ~S.stopIterationFlag
    THEN LET n == next_reverse(S)
             c == Call(callback, n.st, env, n.ret)
         IN  eachLoop_reverse(c.st, callback, c.env)
    ELSE [st |-> S, env |-> env]

each_reverse(S, callback, env) ==
    LET r == eachLoop_reverse(reset_reverse(S).st, callback, env)
    IN  [st |-> [r.st EXCEPT !.stopIterationFlag = FALSE], env |-> r.env]

\* ------------------------------------------------- the list's traversals

\* forEach that puts the cursor back where it found it.
forEach_restoresCursor(S, fn, env, reverse) ==
    LET r == IF reverse
             THEN each_reverse(reset_reverse(S).st, fn, env)
             ELSE each(reset(S).st, fn, env)
    IN  [st |-> [r.st EXCEPT !.currentNode = S.currentNode], env |-> r.env]

forEach(S, fn, env, reverse) ==
    IF reverse
    THEN each_reverse(reset_reverse(S).st, fn, env)
    ELSE each(reset(S).st, fn, env)

\* lodash's _.reverse
Reverse(s) == [i \in 1 .. Len(s) |-> s[Len(s) + 1 - i]]

\* forEach is called without its second argument, so it runs forward.
toArray(S, reverse) ==
    LET r == forEach(S, "toArray", <<>>, FALSE)
    IN  Ret(r.st, IF reverse THEN Reverse(r.env) ELSE r.env)

interruptEnumeration(S) == Ret(interrupt(S).st, NULL)

\* lodash's isEqual on two payloads: structural equality.
isEqual(a, b) == a = b

\* What indexOf returns when no node matches.
NOT_FOUND == -1

\* The loop of indexOf that goes on after a match and reports the last one.
RECURSIVE indexOfLoop_keepsScanning(_, _, _)
indexOfLoop_keepsScanning(S, nodeData, index) ==
    IF hasNext(S)
    THEN LET current == next(S)
             rest == indexOfLoop_keepsScanning(current.st, nodeData, index + 1)
         IN  IF rest.ret # NOT_FOUND
             THEN rest
             ELSE IF isEqual(getData(current.st, current.ret), nodeData)
                  THEN Ret(rest.st, index)
                  ELSE rest
    ELSE Ret(S, NOT_FOUND)

\* The loop of indexOf: step the shared cursor until a node's data equals
\* nodeData.
RECURSIVE indexOfLoop(_, _, _)
indexOfLoop(S, nodeData, index) ==
    IF hasNext(S)
    THEN LET current == next(S)
         IN  IF isEqual(getData(current.st, current.ret), nodeData)
             THEN Ret(current.st, index)
             ELSE indexOfLoop(current.st, nodeData, index + 1)
    ELSE Ret(S, NOT_FOUND)

indexOf(S, nodeData) == indexOfLoop(reset(S).st, nodeData, 0)

\* contains calls this.includes, which the class does not define: the call
\* throws a TypeError before anything is returned.
contains(S, nodeData) == Throw(S)

\* ------------------------------------- callbacks that use the list they visit

\* A callback that calls a method of the list it is visiting.  env.count
\* counts its invocations; env.query and env.reverse are the arguments it
\* passes on.  None of them changes the structure of the list or decides
\* anything from its count.
NestedCall(callback, S, env, el) ==
    LET counted == [env EXCEPT !.count = env.count + 1]
    IN  CASE callback = "callsReset" ->
                [st |-> reset(S).st, env |-> counted]
          [] callback = "callsInterruptEnumeration" ->
                [st |-> interruptEnumeration(S).st, env |-> counted]
          [] callback = "callsForEach" ->
                [st |-> forEach(S, "dummyCallback", <<>>, env.reverse).st,
                 env |-> counted]
          [] callback = "callsToArray" ->
                [st |-> toArray(S, FALSE).st, env |-> counted]
          [] callback = "callsIndexOf" ->
                [st |-> indexOf(S, env.query).st, env |-> counted]

\* The loop of each (of each_reverse when reverse) with such a callback,
\* and the states of the object at the loop test so far.  What the callback
\* does depends on the object alone, so when the loop test meets the object
\* in a state it met before, the loop repeats itself for ever: ended is
\* false and the call never returns.
RECURSIVE eachRunLoop(_, _, _, _, _)
eachRunLoop(S, callback, env, reverse, seen) ==
    IF hasNext(S) /\ ~S.stopIterationFlag
    THEN IF S \in seen
         THEN [st |-> S, env |-> env, ended |-> FALSE]
         ELSE LET n == IF reverse THEN next_reverse(S) ELSE next(S)
                  c == NestedCall(callback, n.st, env, n.ret)
              IN  eachRunLoop(c.st, callback, c.env, reverse, seen \cup {S})
    ELSE [st |-> S, env |-> env, ended |-> TRUE]

\* each / each_reverse with such a callback.
eachRun(S, callback, env, reverse) ==
    LET start == IF reverse THEN reset_reverse(S).st ELSE reset(S).st
        r == eachRunLoop(start, callback, env, reverse, {})
    IN  [st |-> [r.st EXCEPT !.stopIterationFlag = FALSE],
         env |-> r.env, ended |-> r.ended]

\* forEach with such a callback.
forEachRun(S, fn, env, reverse) ==
    IF reverse
    THEN eachRun(reset_reverse(S).st, fn, env, TRUE)
    ELSE eachRun(reset(S).st, fn, env, FALSE)

\* ---------------------------------------------------------------- the model

Init ==
    /\ nodes = <<>>
    /\ head = NULL
    /\ tail = NULL
    /\ length = 0
    /\ currentNode = NULL
    /\ stopIterationFlag = FALSE
    /\ last = [op |-> "new", ret |-> NULL, threw |-> FALSE]
    /\ inserted = 0
    /\ removed = 0
    /\ onlyPushBack = TRUE

\* The payload the caller passes next: like populateList in the tests,
\* every call passes an item no earlier call passed.
Payloads == {<<"item", Len(nodes) + 1>>}

\* The object becomes r.st and the call is recorded.
Apply(r, op) ==
    /\ Len(r.st.nodes) <= MaxNodes
    /\ nodes' = r.st.nodes
    /\ head' = r.st.head
    /\ tail' = r.st.tail
    /\ length' = r.st.length
    /\ currentNode' = r.st.currentNode
    /\ stopIterationFlag' = r.st.stopIterationFlag
    /\ last' = [op |-> op, ret |-> r.ret, threw |-> r.threw]
    /\ onlyPushBack' = (onlyPushBack /\ op = "pushBack")

\* A call that returned true put one node in.
Inserts(r) ==
    /\ inserted' = IF ~r.threw /\ r.ret = TRUE THEN inserted + 1 ELSE inserted
    /\ removed' = removed

\* A call that returned a node took one node out.
Removes(r) ==
    /\ removed' = IF ~r.threw /\ r.ret # NULL THEN removed + 1 ELSE removed
    /\ inserted' = inserted

PushBack ==
    \E data \in Payloads :
        LET r == pushBack(Self, data)
        IN  Apply(r, "pushBack") /\ Inserts(r)

PushFront ==
    \E data \in Payloads :
        LET r == pushFront(Self, data)
        IN  Apply(r, "pushFront") /\ Inserts(r)

Insert ==
    \E index \in Indices, data \in Payloads :
        LET r == insert(Self, index, data)
        IN  Apply(r, "insert") /\ Inserts(r)

PopBack ==
    LET r == popBack(Self)
    IN  Apply(r, "popBack") /\ Removes(r)

PopFront ==
    LET r == popFront(Self)
    IN  Apply(r, "popFront") /\ Removes(r)

\* remove(item, index) as its signature has it, and remove(index) as its
\* documentation has it.
Remove ==
    \/ \E item \in Payloads, index \in Indices :
          LET r == remove(Self, item, index)
          IN  Apply(r, "remove") /\ Removes(r)
    \/ \E index \in Indices :
          LET r == remove(Self, index, UNDEFINED)
          IN  Apply(r, "remove") /\ Removes(r)

Clear ==
    LET r == clear(Self)
    IN  /\ Apply(r, "clear")
        /\ removed' = removed + clearPops(Self)
        /\ inserted' = inserted

At ==
    \E index \in Indices :
        LET r == Ret(Self, at(Self, index))
        IN  Apply(r, "at") /\ UNCHANGED <<inserted, removed>>

ToArray ==
    \E reverse \in BOOLEAN :
        LET r == toArray(Self, reverse)
        IN  Apply(r, "toArray") /\ UNCHANGED <<inserted, removed>>

InterruptEnumeration ==
    LET r == interruptEnumeration(Self)
    IN  Apply(r, "interruptEnumeration") /\ UNCHANGED <<inserted, removed>>

\* The structural operations and the indexed read.
ListNext ==
    \/ PushBack
    \/ PushFront
    \/ Insert
    \/ PopBack
    \/ PopFront
    \/ Remove
    \/ Clear
    \/ At

\* The list used without its traversals: the iterator is never touched.
ListSpec == Init /\ [][ListNext]_vars

Next ==
    \/ ListNext
    \/ ToArray
    \/ InterruptEnumeration

Spec == Init /\ [][Next]_vars

\* pushBack of a payload an earlier call already passed.
PushBackAgain ==
    \E data \in {nodes[i].data : i \in 1 .. Len(nodes)} :
        LET r == pushBack(Self, data)
        IN  Apply(r, "pushBack") /\ Inserts(r)

IndexOf ==
    \E nodeData \in Data :
        LET r == indexOf(Self, nodeData)
        IN  Apply(r, "indexOf") /\ UNCHANGED <<inserted, removed>>

Contains ==
    \E nodeData \in Data :
        LET r == contains(Self, nodeData)
        IN  Apply(r, "contains") /\ UNCHANGED <<inserted, removed>>

SearchNext ==
    \/ PushBack
    \/ PushBackAgain
    \/ PushFront
    \/ PopFront
    \/ IndexOf
    \/ Contains

\* Lists that may hold the same payload more than once, and the searches.
SearchSpec == Init /\ [][SearchNext]_vars

\* The callbacks a caller passes to a pass, each with its closure as the
\* pass starts.
Callbacks ==
    {<<"dummyCallback", <<>>>>}
        \cup {<<"countAndInterrupt", [count |-> 0, at |-> k]>> : k \in 1 .. MaxNodes}

\* A pass returns nothing; what the caller sees of it is the closure of its
\* callback, recorded as the call's result.
Pass(r) == [st |-> r.st, ret |-> r.env, threw |-> FALSE]

Reset ==
    Apply(reset(Self), "reset") /\ UNCHANGED <<inserted, removed>>

ResetReverse ==
    Apply(reset_reverse(Self), "reset_reverse") /\ UNCHANGED <<inserted, removed>>

IteratorNext ==
    Apply(next(Self), "next") /\ UNCHANGED <<inserted, removed>>

NextReverse ==
    Apply(next_reverse(Self), "next_reverse") /\ UNCHANGED <<inserted, removed>>

HasNext ==
    Apply(Ret(Self, hasNext(Self)), "hasNext") /\ UNCHANGED <<inserted, removed>>

First ==
    Apply(first(Self), "first") /\ UNCHANGED <<inserted, removed>>

Last ==
    Apply(iterator_last(Self), "last") /\ UNCHANGED <<inserted, removed>>

Each ==
    \E cb \in Callbacks :
        LET r == Pass(each(Self, cb[1], cb[2]))
        IN  Apply(r, "each") /\ UNCHANGED <<inserted, removed>>

EachReverse ==
    \E cb \in Callbacks :
        LET r == Pass(each_reverse(Self, cb[1], cb[2]))
        IN  Apply(r, "each_reverse") /\ UNCHANGED <<inserted, removed>>

ForEach ==
    \E cb \in Callbacks, reverse \in BOOLEAN :
        LET r == Pass(forEach(Self, cb[1], cb[2], reverse))
        IN  Apply(r, "forEach") /\ UNCHANGED <<inserted, removed>>

Interrupt ==
    Apply(interrupt(Self), "interrupt") /\ UNCHANGED <<inserted, removed>>

CursorNext ==
    \/ PushBack
    \/ PushFront
    \/ PopBack
    \/ PopFront
    \/ Reset
    \/ ResetReverse
    \/ IteratorNext
    \/ NextReverse
    \/ HasNext
    \/ First
    \/ Last
    \/ Each
    \/ EachReverse
    \/ ForEach
    \/ ToArray
    \/ Interrupt
    \/ InterruptEnumeration

\* The list grown and shrunk at its ends, with the iterator used directly
\* and through the list's traversals.
CursorSpec == Init /\ [][CursorNext]_vars

MutateAndStepNext ==
    \/ PushBack
    \/ PushFront
    \/ Insert
    \/ PopBack
    \/ PopFront
    \/ Remove
    \/ Clear
    \/ Reset
    \/ ResetReverse
    \/ IteratorNext
    \/ NextReverse
    \/ First
    \/ Last

\* Every structural method interleaved with the caller's own steps of the
\* cursor.
MutateAndStepSpec == Init /\ [][MutateAndStepNext]_vars

\* The callbacks that use the list, each with its closure as the pass
\* starts.
NestedCallbacks ==
    {<<"callsReset", [count |-> 0]>>,
     <<"callsInterruptEnumeration", [count |-> 0]>>,
     <<"callsToArray", [count |-> 0]>>}
        \cup {<<"callsForEach", [count |-> 0, reverse |-> b]>> : b \in BOOLEAN}
        \cup {<<"callsIndexOf", [count |-> 0, query |-> q]>> : q \in Data}

\* forEach with a callback that uses the list.  A call that never returns
\* has no state after it.
ForEachNested ==
    \E cb \in NestedCallbacks, reverse \in BOOLEAN :
        LET r == forEachRun(Self, cb[1], cb[2], reverse)
        IN  /\ r.ended
            /\ Apply([st |-> r.st, ret |-> r.env, threw |-> FALSE], "forEach")
            /\ UNCHANGED <<inserted, removed>>

NestedNext ==
    \/ PushBack
    \/ PushFront
    \/ PopFront
    \/ InterruptEnumeration
    \/ ForEachNested

\* Passes whose callback uses the list it is visiting.
NestedSpec == Init /\ [][NestedNext]_vars

IsEmpty ==
    Apply(Ret(Self, isEmpty(Self)), "isEmpty") /\ UNCHANGED <<inserted, removed>>

Size ==
    Apply(Ret(Self, size(Self)), "size") /\ UNCHANGED <<inserted, removed>>

ReadNext ==
    \/ PushBack
    \/ PushFront
    \/ PopBack
    \/ PopFront
    \/ IsEmpty
    \/ Size
    \/ At
    \/ IndexOf
    \/ ToArray
    \/ ForEach
    \/ InterruptEnumeration

\* The list grown and shrunk at its ends and read in every way it offers.
ReadSpec == Init /\ [][ReadNext]_vars

\* ------------------------------------------------------- reading the chain

\* The nodes met from `node` by following `link`, at most `fuel` of them:
\* a chain that runs longer than the heap holds nodes has a cycle.
RECURSIVE Follow(_, _, _, _)
Follow(S, node, link, fuel) ==
    IF node = NULL \/ node \notin DOMAIN S.nodes \/ fuel = 0
    THEN <<>>
    ELSE <<node>> \o Follow(S, IF link = "next" THEN S.nodes[node].next
                                                ELSE S.nodes[node].prev,
                            link, fuel - 1)

\* The chain from head via next, and the chain from tail via prev.
Forward(S) == Follow(S, S.head, "next", Len(S.nodes) + 1)

Backward(S) == Follow(S, S.tail, "prev", Len(S.nodes) + 1)

\* The payloads the list holds, head first.
Contents(S) == [i \in 1 .. Len(Forward(S)) |-> S.nodes[Forward(S)[i]].data]

\* --------------------------------------------------------------- the claims

\* C1: after any sequence of pushBack, pushFront, insert, popBack, popFront,
\* remove and clear calls on a new list, head is null iff tail is null iff
\* size() is 0, and the chain from head via next and the chain from tail via
\* prev both have size() nodes.
C1_EmptinessAndChainLengths ==
    /\ (head = NULL) <=> (tail = NULL)
    /\ (tail = NULL) <=> (size(Self) = 0)
    /\ Len(Forward(Self)) = size(Self)
    /\ Len(Backward(Self)) = size(Self)

\* C1's case: clear emptied a list after three nodes in all had been put in
\* and taken out.
C1_Witness ==
    /\ last.op = "clear"
    /\ removed >= 3
    /\ length = 0

\* C2: the chain is bidirectionally consistent: a node's successor has that
\* node as its predecessor, the head has no predecessor, the tail has no
\* successor, and the chain from tail via prev is the reverse of the chain
\* from head via next.
C2_BidirectionalConsistency ==
    /\ \A A \in 1 .. Len(nodes) :
          (\E i \in 1 .. Len(Forward(Self)) : Forward(Self)[i] = A)
              /\ nodes[A].next # NULL
          => nodes[nodes[A].next].prev = A
    /\ head # NULL => nodes[head].prev = NULL
    /\ tail # NULL => nodes[tail].next = NULL
    /\ Backward(Self) = Reverse(Forward(Self))

\* C2's case: a node was inserted between two others.
C2_Witness ==
    /\ last.op = "insert"
    /\ length = 3
    /\ Forward(Self)[2] = Len(nodes)

\* C3: size() is the number of calls that put a node in (those that returned
\* true) minus the number that took one out (those that returned a node), so
\* a failed call counts 0 and a delegated call counts 1, never 2.
C3_SizeIsInsertsMinusRemoves ==
    size(Self) = inserted - removed

\* C3's case: pushFront delegated to pushBack on a list that earlier calls
\* had filled and emptied.
C3_Witness ==
    /\ last.op = "pushFront"
    /\ length = 1
    /\ removed >= 1

\* Index i of a list of n nodes is in range.
InRange(S, i) == 0 <= i /\ i <= size(S) - 1

\* Sequence s without its k-th element.
Without(s, k) == SubSeq(s, 1, k - 1) \o SubSeq(s, k + 1, Len(s))

\* Sequence s with e put before its k-th element.
WithBefore(s, k, e) == SubSeq(s, 1, k - 1) \o <<e>> \o SubSeq(s, k, Len(s))

\* C4: after only pushBack calls toArray(false) is the pushed data in
\* insertion order, and on every reachable list toArray(false) and then
\* toArray(true) each have size() elements, the second the reverse of the
\* first.
C4_ToArrayOrderAndReverse ==
    LET fwd == toArray(Self, FALSE)
        rev == toArray(fwd.st, TRUE)
    IN  /\ onlyPushBack => fwd.ret = [i \in 1 .. Len(nodes) |-> nodes[i].data]
        /\ Len(fwd.ret) = size(Self)
        /\ Len(rev.ret) = size(Self)
        /\ rev.ret = Reverse(fwd.ret)

\* C5: pushBack(x) returns true and makes a new node holding x the tail,
\* the earlier nodes unchanged in order before it; pushFront(x) returns true
\* and makes a new node holding x the head, without predecessor, the earlier
\* nodes unchanged in order after it; on an empty list either leaves
\* head = tail = the new node and size() = 1.
C5_PushBackAndPushFront ==
    \A x \in Data :
        LET b == pushBack(Self, x)
            f == pushFront(Self, x)
        IN  /\ ~b.threw /\ b.ret = TRUE
            /\ b.st.tail \notin DOMAIN nodes
            /\ getData(b.st, b.st.tail) = x
            /\ Forward(b.st) = Append(Forward(Self), b.st.tail)
            /\ Contents(b.st) = Append(Contents(Self), x)
            /\ ~f.threw /\ f.ret = TRUE
            /\ f.st.head \notin DOMAIN nodes
            /\ getData(f.st, f.st.head) = x
            /\ f.st.nodes[f.st.head].prev = NULL
            /\ Forward(f.st) = <<f.st.head>> \o Forward(Self)
            /\ Contents(f.st) = <<x>> \o Contents(Self)
            /\ isEmpty(Self) =>
                  /\ b.st.head = b.st.tail /\ size(b.st) = 1
                  /\ f.st.head = f.st.tail /\ size(f.st) = 1

\* C5's case: pushFront put a new head before two nodes.
C5_Witness ==
    /\ last.op = "pushFront"
    /\ length = 3
    /\ head = Len(nodes)

\* C6: insert(index, x) with 0 <= index <= size()-1 returns true and the
\* list then holds s[0..index), x, s[index..]: at(index) holds x, index 0
\* makes x the head, and for every index >= 1 the tail is the node it was.
C6_InsertBeforeIndex ==
    \A i \in 0 .. MaxNodes, x \in Data :
        InRange(Self, i) =>
            LET r == insert(Self, Num(i), x)
                new == Len(nodes) + 1
            IN  /\ ~r.threw /\ r.ret = TRUE
                /\ size(r.st) = size(Self) + 1
                /\ Forward(r.st) = WithBefore(Forward(Self), i + 1, new)
                /\ Contents(r.st) = WithBefore(Contents(Self), i + 1, x)
                /\ at(r.st, Num(i)) = new
                /\ getData(r.st, at(r.st, Num(i))) = x
                /\ i = 0 => r.st.head = new
                /\ i >= 1 => r.st.tail = Self.tail

\* C6's case: insert at the last index put the new node before the last
\* node of a two-node list.
C6_Witness ==
    /\ last.op = "insert"
    /\ last.ret = TRUE
    /\ length = 3
    /\ nodes[tail].prev = Len(nodes)

\* C7: at(index) on an empty list returns -1; insert with its index
\* parameter < 0 or > size()-1 returns false and remove with its index
\* parameter < 0 or > size()-1 returns null, on an empty list for every
\* index; none of them changes head, tail, length or a link.
C7_OutOfRangeFailsUnchanged ==
    /\ isEmpty(Self) => \A index \in Indices : at(Self, index) = FAIL
    /\ \A i \in -1 .. MaxNodes :
          ~InRange(Self, i) =>
              /\ \A x \in Data :
                    LET r == insert(Self, Num(i), x)
                    IN  ~r.threw /\ r.ret = FALSE /\ r.st = Self
              /\ \A item \in Data :
                    LET r == remove(Self, item, Num(i))
                    IN  ~r.threw /\ r.ret = NULL /\ r.st = Self

\* C7's case: remove returned null on a list that holds nodes.
C7_Witness ==
    /\ last.op = "remove"
    /\ ~last.threw
    /\ last.ret = NULL
    /\ length >= 1

\* C8: popBack and popFront return null and change nothing on an empty
\* list; otherwise popBack returns the tail and leaves the list without its
\* last node, popFront returns the head and leaves it without its first; on
\* a one-node list either leaves head = tail = null and size() = 0.
C8_PopBackAndPopFront ==
    LET b == popBack(Self)
        f == popFront(Self)
        s == Forward(Self)
    IN  /\ ~b.threw /\ ~f.threw
        /\ isEmpty(Self) =>
              /\ b.ret = NULL /\ b.st = Self
              /\ f.ret = NULL /\ f.st = Self
        /\ ~isEmpty(Self) =>
              /\ b.ret = Self.tail
              /\ Forward(b.st) = Without(s, Len(s))
              /\ size(b.st) = size(Self) - 1
              /\ f.ret = Self.head
              /\ Forward(f.st) = Without(s, 1)
              /\ size(f.st) = size(Self) - 1
        /\ size(Self) = 1 =>
              /\ b.st.head = NULL /\ b.st.tail = NULL /\ size(b.st) = 0
              /\ f.st.head = NULL /\ f.st.tail = NULL /\ size(f.st) = 0

\* C8's case: popFront emptied a one-node list.
C8_Witness ==
    /\ last.op = "popFront"
    /\ last.ret # NULL
    /\ length = 0

\* C9: remove(index), the index its only argument, with
\* 0 <= index <= size()-1 returns the node at that index and leaves the list
\* without it; remove(0) does what popFront() does and remove(size()-1)
\* what popBack() does; no call throws.
C9_RemoveByIndex ==
    \A i \in 0 .. MaxNodes :
        InRange(Self, i) =>
            LET r == remove(Self, Num(i), UNDEFINED)
                s == Forward(Self)
            IN  /\ ~r.threw
                /\ r.ret = s[i + 1]
                /\ Forward(r.st) = Without(s, i + 1)
                /\ i = 0 => r = popFront(Self)
                /\ i = size(Self) - 1 => r = popBack(Self)

\* C10: a node that popBack, popFront or remove returned has next = null
\* and prev = null when it is returned.
C10_ReturnedNodeUnlinked ==
    (/\ last.op \in {"popBack", "popFront", "remove"}
     /\ ~last.threw
     /\ last.ret # NULL)
    => /\ nodes[last.ret].next = NULL
       /\ nodes[last.ret].prev = NULL

\* C11: on a non-empty list at(index) with 0 <= index <= size()-1 returns
\* the node that index next links from head lead to, whose data is
\* toArray(false)[index], and with index > size()-1 it returns -1.
C11_AtFollowsIndexLinks ==
    ~isEmpty(Self) =>
        \A i \in 0 .. MaxNodes + 1 :
            /\ InRange(Self, i) =>
                  /\ at(Self, Num(i)) = Forward(Self)[i + 1]
                  /\ getData(Self, at(Self, Num(i))) = Contents(Self)[i + 1]
                  /\ getData(Self, at(Self, Num(i)))
                        = toArray(Self, FALSE).ret[i + 1]
            /\ i > size(Self) - 1 => at(Self, Num(i)) = FAIL

\* C11's case: at returned the last node of a three-node list.
C11_Witness ==
    /\ last.op = "at"
    /\ length = 3
    /\ last.ret = tail

\* C12: at(index) with a negative index returns -1 on a non-empty list,
\* never a node.
C12_NegativeIndexFails ==
    ~isEmpty(Self) =>
        \A i \in -2 .. -1 : at(Self, Num(i)) = FAIL

\* The positions of Contents(S) whose payload equals the query.
Matches(S, nodeData) ==
    {i \in 1 .. Len(Contents(S)) : isEqual(Contents(S)[i], nodeData)}

\* C13: indexOf(data) returns the smallest index whose node's data equals
\* the query, and -1 exactly when no node's data equals it, the empty list
\* included.
C13_IndexOfFirstMatch ==
    \A nodeData \in Data :
        LET r == indexOf(Self, nodeData)
            m == Matches(Self, nodeData)
        IN  /\ ~r.threw
            /\ m = {} <=> r.ret = -1
            /\ m # {} => /\ r.ret + 1 \in m
                         /\ \A i \in m : r.ret + 1 <= i

\* C13's case: indexOf found its query at index 1 of a three-node list whose
\* last node holds the same payload.
C13_Witness ==
    /\ last.op = "indexOf"
    /\ last.ret = 1
    /\ length = 3
    /\ Contents(Self)[2] = Contents(Self)[3]
    /\ Contents(Self)[1] # Contents(Self)[2]

\* C14: contains(data) returns a boolean without throwing, true exactly
\* when indexOf(data) is not -1.
C14_ContainsIffIndexOf ==
    \A nodeData \in Data :
        LET r == contains(Self, nodeData)
        IN  /\ ~r.threw
            /\ r.ret = (indexOf(Self, nodeData).ret # -1)

\* C18: clear() ends after exactly n popBack calls on a list of n nodes and
\* leaves size() 0, head null and tail null.
C18_ClearPopsEveryNode ==
    LET r == clear(Self)
    IN  /\ clearPops(Self) = size(Self)
        /\ ~r.threw
        /\ size(r.st) = 0
        /\ r.st.head = NULL
        /\ r.st.tail = NULL

\* C18's case: clear has run and the list is empty, its three nodes having
\* been popped from the back one after the other.
C18_Witness ==
    /\ last.op = "clear"
    /\ inserted = 3
    /\ removed = 3
    /\ length = 0
    /\ nodes[3].prev = 2
    /\ nodes[2].prev = 1

\* C15: with a callback that neither changes the list, touches the cursor
\* nor interrupts, each and forEach(cb, false) call it once per node, head
\* to tail, each_reverse and forEach(cb, true) once per node, tail to head;
\* what forEach(cb, true) visits is what toArray(true) returns, and on an
\* empty list the callback is not called.
C15_PassVisitsEveryNodeInOrder ==
    LET backward == forEach(Self, "dummyCallback", <<>>, TRUE)
    IN  /\ each(Self, "dummyCallback", <<>>).env = Contents(Self)
        /\ forEach(Self, "dummyCallback", <<>>, FALSE).env = Contents(Self)
        /\ each_reverse(Self, "dummyCallback", <<>>).env
              = Reverse(Contents(Self))
        /\ backward.env = Reverse(Contents(Self))
        /\ backward.env = toArray(backward.st, TRUE).ret
        /\ isEmpty(Self) => each(Self, "dummyCallback", <<>>).env = <<>>

\* The closure of the counting callback after a pass in which it was to
\* interrupt during its k-th invocation.
Interrupted(S, k) ==
    LET env == [count |-> 0, at |-> k]
    IN  {each(S, "countAndInterrupt", env).env,
         each_reverse(S, "countAndInterrupt", env).env,
         forEach(S, "countAndInterrupt", env, FALSE).env,
         forEach(S, "countAndInterrupt", env, TRUE).env}

\* C16: in a forward or reverse pass over n nodes whose callback interrupts
\* during its k-th invocation, 1 <= k <= n, the callback is invoked exactly
\* k times: a pass that makes the k-th invocation makes no further one, and
\* a pass that starts with no interrupt pending does make the k-th.
C16_InterruptEndsPassAfterKth ==
    \A k \in 1 .. MaxNodes + 1 :
        \A env \in Interrupted(Self, k) :
            /\ env.count >= k => env.count = k
            /\ ~stopIterationFlag /\ k <= size(Self) => env.count = k

\* C16's case: a pass over three nodes has ended after the second
\* invocation of its callback, which raised the interrupt.
C16_Witness ==
    /\ last.op \in {"each", "each_reverse", "forEach"}
    /\ length = 3
    /\ last.ret = [count |-> 2, at |-> 2]

\* C17: interrupt() or interruptEnumeration() called while no pass is in
\* progress has no effect: the next each, each_reverse, forEach or toArray
\* still visits all size() nodes.
C17_InterruptOutsidePassHasNoEffect ==
    \A S \in {interrupt(Self).st, interruptEnumeration(Self).st} :
        /\ Len(each(S, "dummyCallback", <<>>).env) = size(Self)
        /\ Len(each_reverse(S, "dummyCallback", <<>>).env) = size(Self)
        /\ \A reverse \in BOOLEAN :
              /\ Len(forEach(S, "dummyCallback", <<>>, reverse).env)
                    = size(Self)
              /\ Len(toArray(S, reverse).ret) = size(Self)

\* The iterator after k calls of next (of next_reverse when reverse).
RECURSIVE nextTimes(_, _, _)
nextTimes(S, k, reverse) ==
    IF k = 0
    THEN S
    ELSE nextTimes((IF reverse THEN next_reverse(S) ELSE next(S)).st,
                   k - 1, reverse)

\* From S, hasNext is true before each of the first Len(order) calls of the
\* stepping method, which return the nodes of order one after the other;
\* then hasNext is false and every further call returns null and leaves the
\* cursor exhausted.
WalksThenExhausted(S, order, reverse) ==
    LET step(T) == IF reverse THEN next_reverse(T) ELSE next(T)
    IN  /\ \A k \in 0 .. Len(order) - 1 :
              /\ hasNext(nextTimes(S, k, reverse))
              /\ step(nextTimes(S, k, reverse)).ret = order[k + 1]
        /\ \A k \in Len(order) .. Len(order) + 2 :
              /\ ~hasNext(nextTimes(S, k, reverse))
              /\ step(nextTimes(S, k, reverse)).ret = NULL
              /\ ~hasNext(step(nextTimes(S, k, reverse)).st)

\* C19: after reset() (reset_reverse()) on a list of n nodes that is not
\* modified, hasNext() is true before each of the first n next()
\* (next_reverse()) calls, which return the nodes head to tail (tail to
\* head), and false after the n-th; further calls return null and leave the
\* cursor exhausted.  On a freshly constructed list next() returns null.
C19_CursorWalksListThenStaysExhausted ==
    /\ Len(Forward(Self)) = size(Self)
    /\ WalksThenExhausted(reset(Self).st, Forward(Self), FALSE)
    /\ WalksThenExhausted(reset_reverse(Self).st, Reverse(Forward(Self)), TRUE)
    /\ last.op = "new" => next(Self).ret = NULL

\* C19's case: next_reverse has returned the head of a three-node list and
\* left the cursor exhausted.
C19_Witness ==
    /\ last.op = "next_reverse"
    /\ length = 3
    /\ last.ret = head
    /\ currentNode = NULL

C21_FlagClearWhenPassReturns ==
    /\ last.op \in {"each", "each_reverse", "forEach", "toArray"}
          => ~stopIterationFlag
    /\ \A cb \in Callbacks :
          \A r \in {each(Self, cb[1], cb[2]), each_reverse(Self, cb[1], cb[2])} :
              /\ ~r.st.stopIterationFlag
              /\ each(r.st, "dummyCallback", <<>>).env = Contents(Self)
              /\ each_reverse(r.st, "dummyCallback", <<>>).env
                    = Reverse(Contents(Self))

\* C21's case: each_reverse has returned from a pass over three nodes that
\* its callback interrupted during the first invocation, and the flag is
\* down.
C21_Witness ==
    /\ last.op = "each_reverse"
    /\ length = 3
    /\ last.ret = [count |-> 1, at |-> 1]
    /\ ~stopIterationFlag

\* C22: however list mutations and cursor operations interleave, the
\* cursor is empty or on a node of the list's chain from head; it never
\* refers to a node that has been removed.
C22_CursorStaysInChain ==
    \/ currentNode = NULL
    \/ \E i \in 1 .. Len(Forward(Self)) : Forward(Self)[i] = currentNode

\* C23: forEach / each / each_reverse run to completion for every callback
\* that itself returns and does not change the structure of the list,
\* callbacks that call interruptEnumeration() or start a nested traversal
\* (forEach, toArray, indexOf, reset) on the shared cursor included.
C23_PassesRunToCompletion ==
    \A cb \in NestedCallbacks, reverse \in BOOLEAN :
        /\ forEachRun(Self, cb[1], cb[2], reverse).ended
        /\ eachRun(Self, cb[1], cb[2], reverse).ended

\* The callbacks that run a full nested traversal of the list S: forEach in
\* either direction, toArray, and indexOf of a value no node holds.
FullTraversals(S) ==
    {cb \in NestedCallbacks :
        \/ cb[1] \in {"callsForEach", "callsToArray"}
        \/ cb[1] = "callsIndexOf" /\ Matches(S, cb[2].query) = {}}

\* C24: when the callback of a forEach pass over n >= 2 nodes runs a full
\* nested traversal of the same list during its first invocation, the
\* nested traversal leaves the shared cursor exhausted and the outer pass
\* ends after that one invocation, having visited fewer than n nodes.  (A
\* pass that starts with no interrupt pending does make its first
\* invocation.)
C24_NestedPassExhaustsSharedCursor ==
    size(Self) >= 2 =>
        \A cb \in FullTraversals(Self), reverse \in BOOLEAN :
            LET r == forEachRun(Self, cb[1], cb[2], reverse)
            IN  /\ r.ended
                /\ r.env.count <= 1
                /\ r.env.count < size(Self)
                /\ r.env.count = 1 => ~hasNext(r.st)
                /\ ~stopIterationFlag => r.env.count = 1

\* C24's case: a forEach over three nodes has returned after the one
\* invocation in which its callback searched the list for an absent value,
\* and the cursor is exhausted.
C24_Witness ==
    /\ last.op = "forEach"
    /\ length = 3
    /\ last.ret = [count |-> 1, query |-> <<"item", MaxNodes + 1>>]
    /\ currentNode = NULL

\* The methods that only read the list.
ReadOps == {"isEmpty", "size", "at", "indexOf", "toArray", "forEach"}

\* C25: isEmpty, size, at, indexOf, toArray and forEach (with a callback
\* that does not mutate) leave head, tail, length and every node's data,
\* next and prev as they were; they may change only the cursor's position
\* and the interrupt flag.
C25_ReadsLeaveStructureUnchanged ==
    [][last'.op \in ReadOps => UNCHANGED <<nodes, head, tail, length>>]_vars

\* C25's case: indexOf has scanned a three-node list to its end without a
\* match, moving the cursor off the list, and the chain still has its
\* three nodes.
C25_Witness ==
    /\ last.op = "indexOf"
    /\ last.ret = NOT_FOUND
    /\ length = 3
    /\ Len(Forward(Self)) = 3
    /\ currentNode = NULL
    /\ Backward(Self) = Reverse(Forward(Self))

====
